---- MODULE Spec2Model ----
(***************************************************************************)
(* Model of SwimXMLWriter (src/main.py): a builder that appends typed      *)
(* elements to the root "data" element of an XML document and serialises   *)
(* the tree.  Strings are sequences of one-character strings, so parsing,  *)
(* formatting and escaping are computed character by character.            *)
(*                                                                         *)
(* Spec follows one generation run of the script.  SpecPair follows two    *)
(* runs side by side: both are seeded alike (one shared random stream) and *)
(* receive the same calls, but each reads its own wall clock.              *)
(***************************************************************************)
EXTENDS Integers, Sequences, FiniteSets, TLC

\* ------------------------------------------------------------------ bounds
MaxCalls == 2
MaxRecords == 3

\* Python's None, as a value that no character sequence equals.
None == <<"None">>

\* ----------------------------------------------------------------- strings
Digits == <<"0", "1", "2", "3", "4", "5", "6", "7", "8", "9">>

IsDigit(c) == \E i \in 1..10 : Digits[i] = c

DigitVal(c) == (CHOOSE i \in 1..10 : Digits[i] = c) - 1

RECURSIVE Dec(_)
\* decimal rendering without padding (glibc %Y)
Dec(n) == IF n < 10 THEN <<Digits[n + 1]>> ELSE Dec(n \div 10) \o <<Digits[(n % 10) + 1]>>

\* two-digit zero-padded rendering (%m, %d, %H, %M, %S)
Pad2(n) == <<Digits[((n \div 10) % 10) + 1], Digits[(n % 10) + 1]>>

RECURSIVE NumVal(_)
NumVal(s) == IF s = <<>> THEN 0 ELSE NumVal(SubSeq(s, 1, Len(s) - 1)) * 10 + DigitVal(s[Len(s)])

RECURSIVE Split(_, _)
\* the fields of s separated by the character sep
Split(s, sep) ==
  IF \A i \in 1..Len(s) : s[i] # sep THEN <<s>>
  ELSE LET k == CHOOSE i \in 1..Len(s) : s[i] = sep /\ \A j \in 1..(i - 1) : s[j] # sep
       IN <<SubSeq(s, 1, k - 1)>> \o Split(SubSeq(s, k + 1, Len(s)), sep)

\* ---------------------------------------------------------------- calendar
IsLeap(y) == (y % 4 = 0 /\ y % 100 # 0) \/ y % 400 = 0

DaysInMonth(y, m) ==
  IF m = 2 THEN (IF IsLeap(y) THEN 29 ELSE 28)
  ELSE IF m \in {4, 6, 9, 11} THEN 30 ELSE 31

Min(a, b) == IF a < b THEN a ELSE b

Max(a, b) == IF a > b THEN a ELSE b

DateTime(y, m, d, h) == [year |-> y, month |-> m, day |-> d, hour |-> h]

\* datetime.datetime.strptime(s, "%Y-%m-%d"): %Y is \d\d\d\d, %m is
\* 1[0-2]|0[1-9]|[1-9], %d is 3[01]|[12]\d|0[1-9]|[1-9]| [1-9]; the whole
\* string must be consumed and the date must exist.
MatchY(p) == Len(p) = 4 /\ \A i \in 1..4 : IsDigit(p[i])

MatchM(p) ==
  \/ Len(p) = 2 /\ p[1] = "1" /\ p[2] \in {"0", "1", "2"}
  \/ Len(p) = 2 /\ p[1] = "0" /\ IsDigit(p[2]) /\ p[2] # "0"
  \/ Len(p) = 1 /\ IsDigit(p[1]) /\ p[1] # "0"

MatchD(p) ==
  \/ Len(p) = 2 /\ p[1] = "3" /\ p[2] \in {"0", "1"}
  \/ Len(p) = 2 /\ p[1] \in {"1", "2"} /\ IsDigit(p[2])
  \/ Len(p) = 2 /\ p[1] = "0" /\ IsDigit(p[2]) /\ p[2] # "0"
  \/ Len(p) = 1 /\ IsDigit(p[1]) /\ p[1] # "0"
  \/ Len(p) = 2 /\ p[1] = " " /\ IsDigit(p[2]) /\ p[2] # "0"

DayVal(p) == IF p[1] = " " THEN DigitVal(p[2]) ELSE NumVal(p)

strptime(s) ==
  IF s = None THEN [err |-> "TypeError", dt |-> DateTime(0, 0, 0, 0)]
  ELSE LET p == Split(s, "-")
       IN IF Len(p) = 3 /\ MatchY(p[1]) /\ MatchM(p[2]) /\ MatchD(p[3])
               /\ NumVal(p[1]) >= 1
               /\ DayVal(p[3]) <= DaysInMonth(NumVal(p[1]), NumVal(p[2]))
          THEN [err |-> "none", dt |-> DateTime(NumVal(p[1]), NumVal(p[2]), DayVal(p[3]), 0)]
          ELSE [err |-> "ValueError", dt |-> DateTime(0, 0, 0, 0)]

\* date.strftime("%Y-%m-%d %H:%M:%S"); minutes and seconds are never stepped
strftime(dt) ==
  Dec(dt.year) \o <<"-">> \o Pad2(dt.month) \o <<"-">> \o Pad2(dt.day) \o <<" ">>
    \o Pad2(dt.hour) \o <<":", "0", "0", ":", "0", "0">>

\* a variant that renders the month number without padding
strftime_months_Unpadded(dt) == <<"-", " ">> \o Dec(dt.month) \o <<" ", "m", "o", "n", "t", "h", "s">>

\* date.strftime("- %m months")
strftime_months(dt) == <<"-", " ">> \o Pad2(dt.month) \o <<" ", "m", "o", "n", "t", "h", "s">>

RECURSIVE AddDays(_, _)
\* dt + timedelta(days=n), n >= 0; OverflowError past year 9999
AddDays(dt, n) ==
  IF dt.day + n <= DaysInMonth(dt.year, dt.month)
  THEN [err |-> "none", dt |-> [dt EXCEPT !.day = dt.day + n]]
  ELSE LET rest == n - (DaysInMonth(dt.year, dt.month) - dt.day + 1)
           y == IF dt.month = 12 THEN dt.year + 1 ELSE dt.year
           m == IF dt.month = 12 THEN 1 ELSE dt.month + 1
       IN IF y > 9999 THEN [err |-> "OverflowError", dt |-> dt]
          ELSE AddDays(DateTime(y, m, 1, dt.hour), rest)

\* relativedelta(years, months, days, hours), normalised as its constructor does
relativedelta(y, m, d, h) ==
  [years |-> y + (m \div 12), months |-> m % 12, days |-> d + (h \div 24), hours |-> h % 24]

\* dt + relativedelta: years and months first, the day clamped to the length
\* of the target month, then days and hours added as a timedelta
AddDelta(dt, rd) ==
  LET m0 == dt.month + rd.months
      year == dt.year + rd.years + (IF m0 > 12 THEN 1 ELSE 0)
      month == IF m0 > 12 THEN m0 - 12 ELSE m0
      day == Min(DaysInMonth(year, month), dt.day)
      h == dt.hour + rd.hours
  IN IF year > 9999 THEN [err |-> "ValueError", dt |-> dt]
     ELSE AddDays(DateTime(year, month, day, h % 24), rd.days + (h \div 24))

\* ------------------------------------------------------------ DOM elements
createElement(tag) == [tag |-> tag, attrs |-> <<>>, children |-> <<>>]

setAttribute(el, name, value) ==
  IF \E i \in 1..Len(el.attrs) : el.attrs[i].name = name
  THEN [el EXCEPT !.attrs = [i \in 1..Len(el.attrs) |->
          IF el.attrs[i].name = name THEN [name |-> name, value |-> value] ELSE el.attrs[i]]]
  ELSE [el EXCEPT !.attrs = Append(el.attrs, [name |-> name, value |-> value])]

\* a variant that inserts the child in front
appendChild_Prepend(el, child) == [el EXCEPT !.children = <<child>> \o el.children]

appendChild(el, child) == [el EXCEPT !.children = Append(el.children, child)]

HasAttr(el, name) == \E i \in 1..Len(el.attrs) : el.attrs[i].name = name

Attr(el, name) == el.attrs[CHOOSE i \in 1..Len(el.attrs) : el.attrs[i].name = name].value

AttrNames(el) == [i \in 1..Len(el.attrs) |-> el.attrs[i].name]

\* ----------------------------------------------------------- serialisation
Chars(s) ==
  CASE s = "data" -> <<"d", "a", "t", "a">>
    [] s = "indicator" -> <<"i", "n", "d", "i", "c", "a", "t", "o", "r">>
    [] s = "indicatorcategory" -> <<"i", "n", "d", "i", "c", "a", "t", "o", "r", "c", "a", "t", "e", "g", "o", "r", "y">>
    [] s = "site" -> <<"s", "i", "t", "e">>
    [] s = "accessgroup" -> <<"a", "c", "c", "e", "s", "s", "g", "r", "o", "u", "p">>
    [] s = "operationsdata" -> <<"o", "p", "e", "r", "a", "t", "i", "o", "n", "s", "d", "a", "t", "a">>
    [] s = "map" -> <<"m", "a", "p">>
    [] s = "user" -> <<"u", "s", "e", "r">>
    [] s = "category" -> <<"c", "a", "t", "e", "g", "o", "r", "y">>
    [] s = "name" -> <<"n", "a", "m", "e">>
    [] s = "type" -> <<"t", "y", "p", "e">>
    [] s = "class" -> <<"c", "l", "a", "s", "s">>
    [] s = "parent" -> <<"p", "a", "r", "e", "n", "t">>
    [] s = "start_date" -> <<"s", "t", "a", "r", "t", "_", "d", "a", "t", "e">>
    [] s = "end_date" -> <<"e", "n", "d", "_", "d", "a", "t", "e">>
    [] s = "date" -> <<"d", "a", "t", "e">>
    [] s = "value" -> <<"v", "a", "l", "u", "e">>
    [] s = "dynamic_date" -> <<"d", "y", "n", "a", "m", "i", "c", "_", "d", "a", "t", "e">>

RECURSIVE write_data(_)
\* minidom's escaping of attribute values
write_data(v) ==
  IF v = <<>> THEN <<>>
  ELSE (CASE v[1] = "&" -> <<"&", "a", "m", "p", ";">>
          [] v[1] = "<" -> <<"&", "l", "t", ";">>
          [] v[1] = "\"" -> <<"&", "q", "u", "o", "t", ";">>
          [] v[1] = ">" -> <<"&", "g", "t", ";">>
          [] OTHER -> <<v[1]>>) \o write_data(Tail(v))

RECURSIVE WriteAttrs(_)
WriteAttrs(attrs) ==
  IF attrs = <<>> THEN <<>>
  ELSE <<" ">> \o Chars(attrs[1].name) \o <<"=", "\"">> \o write_data(attrs[1].value)
         \o <<"\"">> \o WriteAttrs(Tail(attrs))

RECURSIVE writexml(_, _)
RECURSIVE WriteNodes(_, _)
\* Element.writexml with addindent = "\t" and newl = "\n"
writexml(el, indent) ==
  indent \o <<"<">> \o Chars(el.tag) \o WriteAttrs(el.attrs)
    \o (IF el.children # <<>>
        THEN <<">", "\n">> \o WriteNodes(el.children, indent \o <<"\t">>) \o indent
               \o <<"<", "/">> \o Chars(el.tag) \o <<">", "\n">>
        ELSE <<"/", ">", "\n">>)

WriteNodes(nodes, indent) ==
  IF nodes = <<>> THEN <<>>
  ELSE writexml(nodes[1], indent) \o WriteNodes(Tail(nodes), indent)

\* self.doc.toprettyxml(): the declaration, then the root element "data"
\* holding the appended children
toprettyxml(children) ==
  <<"<", "?", "x", "m", "l", " ", "v", "e", "r", "s", "i", "o", "n", "=", "\"", "1", ".", "0", "\"", " ", "?", ">", "\n">>
    \o writexml([tag |-> "data", attrs |-> <<>>, children |-> children], <<>>)

\* ------------------------------------------------------------ the builder
RECURSIVE AppendEach(_, _, _, _)
\* for x in items: child = createElement(tag); child.setAttribute(attr, x);
\* el.appendChild(child)
AppendEach(el, tag, attr, items) ==
  IF items = <<>> THEN el
  ELSE AppendEach(appendChild(el, setAttribute(createElement(tag), attr, items[1])),
                  tag, attr, Tail(items))

create_indicator(root, name, type_, class_type) ==
  LET indicator == setAttribute(setAttribute(setAttribute(createElement("indicator"),
                     "name", name), "type", type_), "class", class_type)
  IN Append(root, indicator)

create_indicator_category(root, name, class_type, indicators) ==
  LET indicator_category == setAttribute(setAttribute(createElement("indicatorcategory"),
                              "name", name), "class", class_type)
  IN Append(root, AppendEach(indicator_category, "map", "indicator", indicators))

\* a variant that sets parent whether or not it is empty
create_site_AlwaysParent(root, name, site_type, categories, parent, start_date, end_date) ==
  LET s0 == setAttribute(setAttribute(createElement("site"), "name", name), "type", site_type)
      s1 == setAttribute(s0, "parent", parent)
      s2 == IF start_date # <<>> THEN setAttribute(s1, "start_date", start_date) ELSE s1
      s3 == IF end_date # <<>> THEN setAttribute(s2, "end_date", end_date) ELSE s2
  IN Append(root, AppendEach(s3, "map", "category", categories))

create_site(root, name, site_type, categories, parent, start_date, end_date) ==
  LET s0 == setAttribute(setAttribute(createElement("site"), "name", name), "type", site_type)
      s1 == IF parent # <<>> THEN setAttribute(s0, "parent", parent) ELSE s0
      s2 == IF start_date # <<>> THEN setAttribute(s1, "start_date", start_date) ELSE s1
      s3 == IF end_date # <<>> THEN setAttribute(s2, "end_date", end_date) ELSE s2
  IN Append(root, AppendEach(s3, "map", "category", categories))

RECURSIVE AppendSites(_, _)
\* for site, categories in sites.items(): a dict iterates in insertion order,
\* so sites is a sequence of (site, categories) entries with distinct keys
AppendSites(access_group, sites) ==
  IF sites = <<>> THEN access_group
  ELSE LET site_el == setAttribute(createElement("site"), "name", sites[1].site)
       IN AppendSites(appendChild(access_group,
                        AppendEach(site_el, "category", "name", sites[1].categories)),
                      Tail(sites))

create_access_group(root, name, users, sites) ==
  LET access_group == setAttribute(createElement("accessgroup"), "name", name)
  IN Append(root, AppendSites(AppendEach(access_group, "user", "name", users), sites))

\* the pos-th output (from 0) of the generator whose outputs repeat s
Rand(s, pos) == s[(pos % Len(s)) + 1]

\* a variant that reads the generator without advancing it
random_choice_NoAdvance(values, pos, s) ==
  IF values = <<>> THEN [err |-> "IndexError", value |-> <<>>, pos |-> pos]
  ELSE [err |-> "none", value |-> values[(Rand(s, pos) % Len(values)) + 1], pos |-> pos]

\* a variant that answers an empty value instead of raising on an empty list
random_choice_Default(values, pos, s) ==
  IF values = <<>> THEN [err |-> "none", value |-> <<>>, pos |-> pos]
  ELSE [err |-> "none", value |-> values[(Rand(s, pos) % Len(values)) + 1], pos |-> pos + 1]

\* random.choice(values) on the seeded generator: s is the stream of draws the
\* seed determines, pos the number of draws consumed so far
random_choice(values, pos, s) ==
  IF values = <<>> THEN [err |-> "IndexError", value |-> <<>>, pos |-> pos]
  ELSE [err |-> "none", value |-> values[(Rand(s, pos) % Len(values)) + 1], pos |-> pos + 1]

RECURSIVE AbsoluteLoop_StepFirst(_, _, _, _, _, _, _)
\* a variant that advances the date before stamping the record
AbsoluteLoop_StepFirst(ops_data, date, i, values, rd, pos, s) ==
  IF i <= 0 THEN [err |-> "none", el |-> ops_data, pos |-> pos]
  ELSE LET c == random_choice(values, pos, s)
           next == AddDelta(date, rd)
           data == setAttribute(setAttribute(createElement("data"),
                     "date", strftime(next.dt)), "value", c.value)
       IN IF c.err # "none" THEN [err |-> c.err, el |-> ops_data, pos |-> c.pos]
          ELSE IF next.err # "none"
               THEN [err |-> next.err, el |-> ops_data, pos |-> c.pos]
               ELSE AbsoluteLoop_StepFirst(appendChild(ops_data, data), next.dt, i - 1, values, rd, c.pos, s)

RECURSIVE AbsoluteLoop(_, _, _, _, _, _, _)
\* the loop of the absolute branch; rd is the calendar step; i records remain
AbsoluteLoop(ops_data, date, i, values, rd, pos, s) ==
  IF i <= 0 THEN [err |-> "none", el |-> ops_data, pos |-> pos]
  ELSE LET c == random_choice(values, pos, s)
           data == setAttribute(setAttribute(createElement("data"),
                     "date", strftime(date)), "value", c.value)
           next == AddDelta(date, rd)
       IN IF c.err # "none" THEN [err |-> c.err, el |-> ops_data, pos |-> c.pos]
          ELSE IF next.err # "none"
               THEN [err |-> next.err, el |-> appendChild(ops_data, data), pos |-> c.pos]
               ELSE AbsoluteLoop(appendChild(ops_data, data), next.dt, i - 1, values, rd, c.pos, s)

RECURSIVE DynamicLoop_Advancing(_, _, _, _, _, _, _)
\* a variant that advances the reference date from record to record
DynamicLoop_Advancing(ops_data, dynamic_date, current_date, i, values, pos, s) ==
  IF i <= 0 THEN [err |-> "none", el |-> ops_data, pos |-> pos]
  ELSE LET c == random_choice(values, pos, s)
           data == setAttribute(setAttribute(createElement("data"),
                     "dynamic_date", dynamic_date), "value", c.value)
           next == AddDelta(current_date, relativedelta(0, 1, 0, 0))
       IN IF c.err # "none" THEN [err |-> c.err, el |-> ops_data, pos |-> c.pos]
          ELSE IF next.err # "none"
               THEN [err |-> next.err, el |-> appendChild(ops_data, data), pos |-> c.pos]
               ELSE DynamicLoop_Advancing(appendChild(ops_data, data), strftime_months(next.dt),
                                          next.dt, i - 1, values, c.pos, s)

RECURSIVE DynamicLoop(_, _, _, _, _, _, _)
\* the loop of the dynamic branch; current_date is the clock as read once
\* before the loop
DynamicLoop(ops_data, dynamic_date, current_date, i, values, pos, s) ==
  IF i <= 0 THEN [err |-> "none", el |-> ops_data, pos |-> pos]
  ELSE LET c == random_choice(values, pos, s)
           data == setAttribute(setAttribute(createElement("data"),
                     "dynamic_date", dynamic_date), "value", c.value)
           next == AddDelta(current_date, relativedelta(0, 1, 0, 0))
       IN IF c.err # "none" THEN [err |-> c.err, el |-> ops_data, pos |-> c.pos]
          ELSE IF next.err # "none"
               THEN [err |-> next.err, el |-> appendChild(ops_data, data), pos |-> c.pos]
               ELSE DynamicLoop(appendChild(ops_data, data), strftime_months(next.dt),
                                current_date, i - 1, values, c.pos, s)

\* the element under construction, before either loop
NewOpsData(a) ==
  setAttribute(setAttribute(createElement("operationsdata"), "site", a.site),
               "indicator", a.indicator)

\* a variant that attaches the element whatever the loop did
Attach_Always(w, loop) == [root |-> Append(w.root, loop.el), pos |-> loop.pos, err |-> loop.err]

\* the end of create_ops_data: self.root.appendChild(ops_data) runs only when
\* the loop has raised nothing
Attach(w, loop) ==
  IF loop.err # "none"
  THEN [root |-> w.root, pos |-> loop.pos, err |-> loop.err]
  ELSE [root |-> Append(w.root, loop.el), pos |-> loop.pos, err |-> "none"]

\* the absolute branch, parsed being the outcome of strptime(from_date)
AbsoluteBranch(w, s, a, parsed) ==
  IF parsed.err # "none"
  THEN [root |-> w.root, pos |-> w.pos, err |-> parsed.err]
  ELSE Attach(w, AbsoluteLoop(NewOpsData(a), parsed.dt, a.num_records, a.values,
                   relativedelta(a.step_years, a.step_months, a.step_days, a.step_hours),
                   w.pos, s))

\* the dynamic branch, now being the outcome of datetime.datetime.now()
DynamicBranch(w, s, a, now) ==
  Attach(w, DynamicLoop(NewOpsData(a), a.dynamic_date, now, a.num_records, a.values, w.pos, s))

\* a variant that parses from_date before choosing the mode
create_ops_data_ParseFirst(w, s, now, a) ==
  IF a.dynamic_date = None \/ strptime(a.from_date).err # "none"
  THEN AbsoluteBranch(w, s, a, strptime(a.from_date))
  ELSE DynamicBranch(w, s, a, now)

\* one run's create_ops_data: w is the writer state (root children, draws
\* consumed), now the wall clock the call would read, a the arguments
create_ops_data(w, s, now, a) ==
  IF a.dynamic_date = None
  THEN AbsoluteBranch(w, s, a, strptime(a.from_date))
  ELSE DynamicBranch(w, s, a, now)

\* one create_* call of one run
Call(op, w, s, now, a) ==
  CASE op = "create_indicator" ->
         [root |-> create_indicator(w.root, a.name, a.ind_type, a.class_type),
          pos |-> w.pos, err |-> "none"]
    [] op = "create_indicator_category" ->
         [root |-> create_indicator_category(w.root, a.name, a.cat_class, a.indicators),
          pos |-> w.pos, err |-> "none"]
    [] op = "create_site" ->
         [root |-> create_site(w.root, a.name, a.site_type, a.categories, a.parent,
                               a.start_date, a.end_date),
          pos |-> w.pos, err |-> "none"]
    [] op = "create_access_group" ->
         [root |-> create_access_group(w.root, a.name, a.users, a.sites),
          pos |-> w.pos, err |-> "none"]
    [] op = "create_ops_data" -> create_ops_data(w, s, now, a)

RECURSIVE ForEach(_, _, _, _, _, _)
RECURSIVE AfterCall(_, _, _, _, _, _)
\* for a in list: self.create_*(a) -- the first exception ends the loop;
\* errs collects the outcome of every call that was made
ForEach(op, w, s, nows, list, errs) ==
  IF list = <<>> THEN [root |-> w.root, pos |-> w.pos, errs |-> errs]
  ELSE AfterCall(op, Call(op, w, s, nows[1], list[1]), s, nows, list, errs)

\* r is the outcome of the call on the first record of list
AfterCall(op, r, s, nows, list, errs) ==
  IF r.err # "none"
  THEN [root |-> r.root, pos |-> r.pos, errs |-> Append(errs, r.err)]
  ELSE ForEach(op, [root |-> r.root, pos |-> r.pos], s, Tail(nows), Tail(list),
               Append(errs, "none"))

\* ------------------------------------------------------------------ inputs
IndicatorArgs ==
  {[name |-> n, ind_type |-> <<"2">>, class_type |-> <<"T">>] : n \in {<<"e">>, <<"<", "1">>}}

CategoryArgs ==
  {[name |-> <<"c", "1">>, cat_class |-> <<"3">>, indicators |-> l] :
     l \in {<< <<"e">>, <<"p">> >>, << <<"p">>, <<"e">> >>}}

SiteArgs ==
  {[name |-> <<"s", "1">>, site_type |-> <<"5">>,
    categories |-> << <<"c", "2">>, <<"c", "1">> >>,
    parent |-> p, start_date |-> sd, end_date |-> ed] :
     p \in {<<>>, <<"s", "0">>},
     sd \in {<<>>, <<"1", "9", "9", "0", "-", "1", "2", "-", "1", "2">>},
     ed \in {<<>>, <<"2", "0", "2", "1", "-", "1", "2", "-", "1", "2">>}}

AccessGroupArgs ==
  {[name |-> <<"g", "1">>, users |-> u, sites |-> st] :
     u \in {<<>>, << <<"u", "2">>, <<"u", "1">> >>},
     st \in {<<>>,
             <<[site |-> <<"s", "2">>, categories |-> << <<"c", "2">>, <<"c", "1">> >>],
               [site |-> <<"s", "1">>, categories |-> <<>>]>>}}

SeedTwelve == <<"-", "1", "2", " ", "m", "o", "n", "t", "h", "s">>

TwoValues == << <<"A">>, <<"B">> >>

\* starting dates with the calendar step used with each (years, months, days, hours)
Example == [from_date |-> <<"2", "0", "2", "2", "-", "0", "1", "-", "0", "1">>, step |-> <<0, 1, 1, 2>>]

Clamped == [from_date |-> <<"2", "0", "2", "4", "-", "1", "-", "3", "1">>, step |-> <<1, 1, 0, 23>>]

Overflow == [from_date |-> <<"9", "9", "9", "9", "-", "1", "2", "-", "3", "1">>, step |-> <<0, 0, 1, 0>>]

Malformed == [from_date |-> <<"2", "0", "2", "2", "-", "0", "2", "-", "3", "0">>, step |-> <<0, 0, 0, 0>>]

Missing == [from_date |-> None, step |-> <<0, 0, 0, 0>>]

OpsArgsOf(sch, n, vs, dd) ==
  [site |-> <<"s", "1">>, indicator |-> <<"e">>, num_records |-> n, values |-> vs,
   dynamic_date |-> dd, from_date |-> sch.from_date,
   step_years |-> sch.step[1], step_months |-> sch.step[2],
   step_days |-> sch.step[3], step_hours |-> sch.step[4]]

OpsArgs ==
  \* absolute mode
  {OpsArgsOf(Example, n, TwoValues, None) : n \in 0..MaxRecords}
  \cup {OpsArgsOf(sch, n, TwoValues, None) : sch \in {Clamped, Overflow, Malformed}, n \in {1, MaxRecords}}
  \cup {OpsArgsOf(Missing, 1, TwoValues, None)}
  \* dynamic mode, with from_date and step varied
  \cup {OpsArgsOf(sch, n, TwoValues, SeedTwelve) : sch \in {Example, Malformed}, n \in 0..MaxRecords}
  \cup {OpsArgsOf(Malformed, MaxRecords, TwoValues, <<"x">>)}
  \* both modes with no candidate values
  \cup {OpsArgsOf(sch, n, <<>>, dd) :
          sch \in {Example, Malformed}, n \in {0, MaxRecords}, dd \in {None, SeedTwelve}}

\* the record lists handed to the create_multiple_* helpers
Lists(S) == {<<a, b>> : a \in S, b \in S}

IndicatorLists == Lists(IndicatorArgs)

CategoryLists == Lists(CategoryArgs)

SiteLists == Lists({a \in SiteArgs : a.parent = <<>> /\ (a.start_date = <<>>) = (a.end_date = <<>>)})

AccessGroupLists == Lists({a \in AccessGroupArgs : (a.users = <<>>) = (a.sites = <<>>)})

OpsLists ==
  Lists({OpsArgsOf(Example, MaxRecords - 1, TwoValues, None),
         OpsArgsOf(Example, MaxRecords - 1, <<>>, SeedTwelve)})

\* the instants a run's wall clock may show when a call reads it
Instants == {DateTime(2026, 11, 3, 9), DateTime(2026, 12, 31, 23)}

Unread == DateTime(0, 0, 0, 0)

\* the output streams the fixed seed may stand for
Streams == {<<0, 1, 1>>, <<1, 1, 0>>}

\* ------------------------------------------------------------------- state
VARIABLES
  runs,    \* the generation runs of the script that are followed
  root,    \* root[r]: the children of run r's root "data" element, in order
  rngpos,  \* rngpos[r]: draws run r has consumed from the seeded generator
  stream,  \* the generator's output under the fixed seed
  calls,   \* create_* calls made so far
  last     \* the latest operation: arguments, clock readings, outcomes

vars == <<runs, root, rngpos, stream, calls, last>>

InitRuns(R) ==
  /\ runs = R
  /\ root = [r \in R |-> <<>>]
  /\ rngpos = [r \in R |-> 0]
  /\ stream \in Streams
  /\ calls = 0
  /\ last = [op |-> "init", multi |-> FALSE, args |-> <<>>,
             nows |-> [r \in R |-> <<>>], errs |-> [r \in R |-> <<>>],
             len0 |-> [r \in R |-> 0], pos0 |-> [r \in R |-> 0]]

\* one run of the script
Init == InitRuns({1})

\* two runs of the script, seeded alike and given the same calls
InitPair == InitRuns({1, 2})

\* the clock readings of one run: one per call that reads the clock
Readings(op, list) ==
  {ns \in [1..Len(list) -> Instants \cup {Unread}] :
     \A i \in 1..Len(list) :
       ns[i] # Unread <=> (op = "create_ops_data" /\ list[i].dynamic_date # None)}

Run(op, list, s, nows) ==
  [r \in runs |-> ForEach(op, [root |-> root[r], pos |-> rngpos[r]], s, nows[r], list, <<>>)]

\* the state after an operation whose outcome in each run is res
Commit(op, multi, list, nows, res) ==
  /\ root' = [r \in runs |-> res[r].root]
  /\ rngpos' = [r \in runs |-> res[r].pos]
  /\ calls' = calls + Len(list)
  /\ last' = [op |-> op, multi |-> multi, args |-> list, nows |-> nows,
              errs |-> [r \in runs |-> res[r].errs],
              len0 |-> [r \in runs |-> Len(root[r])], pos0 |-> rngpos]
  /\ UNCHANGED <<runs, stream>>

\* every run executes the same calls: op on every record of list, in order
Do(op, multi, list) ==
  \E nows \in [runs -> Readings(op, list)] :
    Commit(op, multi, list, nows, Run(op, list, stream, nows))

CreateIndicator ==
  \E a \in IndicatorArgs :
    /\ calls + 1 <= MaxCalls
    /\ Do("create_indicator", FALSE, <<a>>)

CreateIndicatorCategory ==
  \E a \in CategoryArgs :
    /\ calls + 1 <= MaxCalls
    /\ Do("create_indicator_category", FALSE, <<a>>)

CreateSite ==
  \E a \in SiteArgs :
    /\ calls + 1 <= MaxCalls
    /\ Do("create_site", FALSE, <<a>>)

CreateAccessGroup ==
  \E a \in AccessGroupArgs :
    /\ calls + 1 <= MaxCalls
    /\ Do("create_access_group", FALSE, <<a>>)

CreateOpsData ==
  \E a \in OpsArgs :
    /\ calls + 1 <= MaxCalls
    /\ Do("create_ops_data", FALSE, <<a>>)

CreateMultipleIndicators ==
  \E l \in IndicatorLists :
    /\ calls + Len(l) <= MaxCalls
    /\ Do("create_indicator", TRUE, l)

CreateMultipleCategories ==
  \E l \in CategoryLists :
    /\ calls + Len(l) <= MaxCalls
    /\ Do("create_indicator_category", TRUE, l)

CreateMultipleSites ==
  \E l \in SiteLists :
    /\ calls + Len(l) <= MaxCalls
    /\ Do("create_site", TRUE, l)

CreateMultipleAccessGroups ==
  \E l \in AccessGroupLists :
    /\ calls + Len(l) <= MaxCalls
    /\ Do("create_access_group", TRUE, l)

CreateMultipleOpsData ==
  \E l \in OpsLists :
    /\ calls + Len(l) <= MaxCalls
    /\ Do("create_ops_data", TRUE, l)

Next ==
  \/ CreateIndicator
  \/ CreateIndicatorCategory
  \/ CreateSite
  \/ CreateAccessGroup
  \/ CreateOpsData
  \/ CreateMultipleIndicators
  \/ CreateMultipleCategories
  \/ CreateMultipleSites
  \/ CreateMultipleAccessGroups
  \/ CreateMultipleOpsData

Spec == Init /\ [][Next]_vars

SpecPair == InitPair /\ [][Next]_vars

\* --------------------------------------------------- reading the last call
\* the k-th call of the latest operation was made by run r and succeeded
Ok(r, k) == k <= Len(last.errs[r]) /\ last.errs[r][k] = "none"

\* the k-th call of the latest operation was made by run r and raised
Failed(r, k) == k <= Len(last.errs[r]) /\ last.errs[r][k] # "none"

\* the element the k-th call of the latest operation appended in run r
El(r, k) == root[r][last.len0[r] + k]

IsOps == last.op = "create_ops_data"

ChildAttrs(el, name) == [i \in 1..Len(el.children) |-> Attr(el.children[i], name)]

RECURSIVE DrawsBefore(_, _)
\* draws run r consumed in the calls before the k-th of the latest operation
DrawsBefore(r, k) == IF k <= 1 THEN 0 ELSE DrawsBefore(r, k - 1) + Len(El(r, k - 1).children)

\* ------------------------------------------------------------------ claims

\* what one successful call leaves behind: the element of its kind, carrying
\* its arguments, the nested children in the order of the input lists
Matches(op, a, el) ==
  CASE op = "create_indicator" ->
         /\ el.tag = "indicator" /\ Attr(el, "name") = a.name /\ el.children = <<>>
    [] op = "create_indicator_category" ->
         /\ el.tag = "indicatorcategory" /\ Attr(el, "name") = a.name
         /\ ChildAttrs(el, "indicator") = a.indicators
         /\ \A i \in 1..Len(el.children) : el.children[i].tag = "map"
    [] op = "create_site" ->
         /\ el.tag = "site" /\ Attr(el, "name") = a.name
         /\ ChildAttrs(el, "category") = a.categories
         /\ \A i \in 1..Len(el.children) : el.children[i].tag = "map"
    [] op = "create_access_group" ->
         /\ el.tag = "accessgroup" /\ Attr(el, "name") = a.name
         /\ Len(el.children) = Len(a.users) + Len(a.sites)
         /\ \A i \in 1..Len(a.users) :
              el.children[i].tag = "user" /\ Attr(el.children[i], "name") = a.users[i]
         /\ \A i \in 1..Len(a.sites) :
              LET c == el.children[Len(a.users) + i]
              IN /\ c.tag = "site" /\ Attr(c, "name") = a.sites[i].site
                 /\ ChildAttrs(c, "name") = a.sites[i].categories
                 /\ \A j \in 1..Len(c.children) : c.children[j].tag = "category"
    [] op = "create_ops_data" ->
         /\ el.tag = "operationsdata" /\ Attr(el, "site") = a.site
         /\ Attr(el, "indicator") = a.indicator
         /\ \A i \in 1..Len(el.children) : el.children[i].tag = "data"

\* C1: every operation leaves the root's earlier children as they were and
\* appends, at the end and in call order, exactly one element per successful
\* call, whose nested children appear in the order of the input lists.
C1_InsertionOrder ==
  [][\A r \in runs :
       LET n == Len(root[r])
           added == SubSeq(root'[r], n + 1, Len(root'[r]))
       IN /\ Len(root'[r]) >= n
          /\ SubSeq(root'[r], 1, n) = root[r]
          /\ Len(added) = Cardinality({k \in 1..Len(last'.errs[r]) : last'.errs[r][k] = "none"})
          /\ \A k \in 1..Len(added) : Matches(last'.op, last'.args[k], added[k])]_vars

C1_Witness ==
  /\ last.op = "create_access_group" /\ Ok(1, 1) /\ last.len0[1] = 1
  /\ root[1][1].tag = "indicatorcategory" /\ Len(root[1][1].children) = 2
  /\ Len(last.args[1].users) = 2 /\ Len(last.args[1].sites) = 2

\* C2: a site element carries parent, start_date and end_date exactly when
\* the argument is non-empty, each with the supplied value and independently
\* of the other two; name and type are always present.
C2_SiteOptionalAttributes ==
  last.op = "create_site" =>
    \A r \in runs : \A k \in 1..Len(last.args) :
      Ok(r, k) =>
        LET el == El(r, k)
            a == last.args[k]
        IN /\ HasAttr(el, "name") /\ Attr(el, "name") = a.name
           /\ HasAttr(el, "type") /\ Attr(el, "type") = a.site_type
           /\ HasAttr(el, "parent") <=> a.parent # <<>>
           /\ HasAttr(el, "start_date") <=> a.start_date # <<>>
           /\ HasAttr(el, "end_date") <=> a.end_date # <<>>
           /\ HasAttr(el, "parent") => Attr(el, "parent") = a.parent
           /\ HasAttr(el, "start_date") => Attr(el, "start_date") = a.start_date
           /\ HasAttr(el, "end_date") => Attr(el, "end_date") = a.end_date
           /\ Len(el.attrs) = Cardinality({x \in {"name", "type", "parent", "start_date", "end_date"} : HasAttr(el, x)})

C2_Witness ==
  /\ last.op = "create_site" /\ Ok(1, 1)
  /\ last.args[1].parent # <<>> /\ last.args[1].start_date = <<>> /\ last.args[1].end_date # <<>>
  /\ AttrNames(El(1, 1)) = <<"name", "type", "parent", "end_date">>

RECURSIVE Advanced(_, _, _)
\* dt advanced i times by the calendar step rd, one step after the other
Advanced(dt, rd, i) == IF i = 0 THEN dt ELSE AddDelta(Advanced(dt, rd, i - 1), rd).dt

StepOf(a) == relativedelta(a.step_years, a.step_months, a.step_days, a.step_hours)

\* C3: in absolute mode record 0 is stamped with from_date at 00:00:00 and
\* record i with that instant advanced i times by the calendar step, each
\* time from the previous record's timestamp; 2022-01-01 stepped by one month,
\* one day and two hours gives 2022-01-01 00:00:00, 2022-02-02 02:00:00,
\* 2022-03-03 04:00:00, and 2024-01-31 stepped by one year, one month and 23
\* hours gives 2025-02-28 23:00:00 and then 2026-03-29 22:00:00.
C3_AbsoluteStepping ==
  IsOps =>
    \A r \in runs : \A k \in 1..Len(last.args) :
      (Ok(r, k) /\ last.args[k].dynamic_date = None) =>
        LET el == El(r, k)
            a == last.args[k]
            dates == ChildAttrs(el, "date")
        IN /\ \A i \in 1..Len(dates) :
                dates[i] = strftime(Advanced(strptime(a.from_date).dt, StepOf(a), i - 1))
           /\ (a.from_date = Example.from_date /\ Len(dates) >= 1) =>
                dates[1] = <<"2", "0", "2", "2", "-", "0", "1", "-", "0", "1", " ", "0", "0", ":", "0", "0", ":", "0", "0">>
           /\ (a.from_date = Example.from_date /\ Len(dates) >= 3) =>
                /\ dates[2] = <<"2", "0", "2", "2", "-", "0", "2", "-", "0", "2", " ", "0", "2", ":", "0", "0", ":", "0", "0">>
                /\ dates[3] = <<"2", "0", "2", "2", "-", "0", "3", "-", "0", "3", " ", "0", "4", ":", "0", "0", ":", "0", "0">>
           /\ (a.from_date = Clamped.from_date /\ Len(dates) >= 3) =>
                /\ dates[1] = <<"2", "0", "2", "4", "-", "0", "1", "-", "3", "1", " ", "0", "0", ":", "0", "0", ":", "0", "0">>
                /\ dates[2] = <<"2", "0", "2", "5", "-", "0", "2", "-", "2", "8", " ", "2", "3", ":", "0", "0", ":", "0", "0">>
                /\ dates[3] = <<"2", "0", "2", "6", "-", "0", "3", "-", "2", "9", " ", "2", "2", ":", "0", "0", ":", "0", "0">>

C3_Witness ==
  /\ IsOps /\ Ok(1, 1) /\ last.args[1].dynamic_date = None
  /\ last.args[1].from_date = Example.from_date
  /\ Len(El(1, 1).children) = 3

\* the text "- MM months", MM the two-digit number of the calendar month that
\* follows the month of now
MonthNumbers ==
  << <<"0", "1">>, <<"0", "2">>, <<"0", "3">>, <<"0", "4">>, <<"0", "5">>, <<"0", "6">>,
     <<"0", "7">>, <<"0", "8">>, <<"0", "9">>, <<"1", "0">>, <<"1", "1">>, <<"1", "2">> >>

FollowingMonthText(now) ==
  <<"-", " ">> \o MonthNumbers[(now.month % 12) + 1] \o <<" ", "m", "o", "n", "t", "h", "s">>

\* C4 as stated: with the seed "-12 months" every record after the first
\* carries the dynamic_date "- 1 months".
C4_AsStated ==
  IsOps =>
    \A r \in runs : \A k \in 1..Len(last.args) :
      (Ok(r, k) /\ last.args[k].dynamic_date = SeedTwelve) =>
        \A i \in 2..Len(El(r, k).children) :
          Attr(El(r, k).children[i], "dynamic_date") = <<"-", " ", "1", " ", "m", "o", "n", "t", "h", "s">>

\* C4, amended: with the seed "-12 months" every record after the first
\* carries the dynamic_date "- MM months", MM being the two-digit zero-padded
\* number (01 to 12) of the calendar month that follows the month of now.
C4_FollowingMonth ==
  IsOps =>
    \A r \in runs : \A k \in 1..Len(last.args) :
      (Ok(r, k) /\ last.args[k].dynamic_date = SeedTwelve) =>
        \A i \in 2..Len(El(r, k).children) :
          Attr(El(r, k).children[i], "dynamic_date") = FollowingMonthText(last.nows[r][k])

C4_Witness ==
  /\ IsOps /\ Ok(1, 1) /\ last.args[1].dynamic_date = SeedTwelve
  /\ last.nows[1][1].month = 12
  /\ Len(El(1, 1).children) = 3
  /\ Attr(El(1, 1).children[3], "dynamic_date") = <<"-", " ", "0", "1", " ", "m", "o", "n", "t", "h", "s">>

\* C5: two runs with the same seed and the same calls serialise to the same
\* bytes.
C5_Reproducible ==
  \A r1 \in runs : \A r2 \in runs : toprettyxml(root[r1]) = toprettyxml(root[r2])

\* C6: every record's value is a member of the candidate list and is the
\* outcome of its own draw: record i of a call takes the i-th draw of that
\* call, and the call consumes one draw per record.
C6_ValueSampling ==
  IsOps =>
    \A r \in runs : \A k \in 1..Len(last.args) :
      Ok(r, k) =>
        LET el == El(r, k)
            vs == last.args[k].values
            base == last.pos0[r] + DrawsBefore(r, k)
        IN /\ \A i \in 1..Len(el.children) :
                /\ \E j \in 1..Len(vs) : Attr(el.children[i], "value") = vs[j]
                /\ Attr(el.children[i], "value") = vs[(Rand(stream, base + i - 1) % Len(vs)) + 1]
           /\ (k = Len(last.args)) => rngpos[r] = base + Len(el.children)

C6_Witness ==
  /\ IsOps /\ Ok(1, 1) /\ Len(El(1, 1).children) = 3 /\ last.pos0[1] > 0
  /\ Attr(El(1, 1).children[1], "value") # Attr(El(1, 1).children[2], "value")
  /\ last.args[1].dynamic_date # None

\* C7: with no candidate values a call with at least one record raises, the
\* error of the random choice reaching the caller whenever the call gets as
\* far as requesting a value, and nothing is appended; with no records it
\* succeeds and appends an operationsdata element without children.
C7_EmptyValues ==
  IsOps =>
    \A r \in runs : \A k \in 1..Len(last.errs[r]) :
      LET a == last.args[k]
          reaches == a.dynamic_date # None \/ a.from_date = Example.from_date
      IN a.values = <<>> =>
           /\ a.num_records >= 1 => Failed(r, k)
           /\ (a.num_records >= 1 /\ reaches) => last.errs[r][k] = "IndexError"
           /\ Failed(r, k) => Len(root[r]) = last.len0[r] + k - 1
           /\ (a.num_records = 0 /\ reaches) =>
                /\ Ok(r, k)
                /\ El(r, k).tag = "operationsdata"
                /\ El(r, k).children = <<>>

C7_Witness ==
  /\ IsOps /\ last.args[1].values = <<>> /\ last.args[1].num_records >= 1
  /\ last.args[1].dynamic_date = None /\ last.args[1].from_date = Example.from_date
  /\ last.errs[1] = <<"IndexError">> /\ Len(root[1]) = last.len0[1] /\ Len(root[1]) = 1

\* C8: in dynamic mode the first record carries the seed unchanged, and all
\* later records carry one and the same text, given by the month that follows
\* now, whatever the seed and the position of the record.
C8_DynamicRecurrence ==
  IsOps =>
    \A r \in runs : \A k \in 1..Len(last.args) :
      (Ok(r, k) /\ last.args[k].dynamic_date # None) =>
        LET dd == ChildAttrs(El(r, k), "dynamic_date")
        IN /\ Len(dd) >= 1 => dd[1] = last.args[k].dynamic_date
           /\ \A i \in 2..Len(dd) : \A j \in 2..Len(dd) : dd[i] = dd[j]
           /\ \A i \in 2..Len(dd) : dd[i] = FollowingMonthText(last.nows[r][k])

C8_Witness ==
  /\ IsOps /\ Ok(1, 1) /\ last.args[1].dynamic_date = <<"x">>
  /\ ChildAttrs(El(1, 1), "dynamic_date")
       = << <<"x">>, <<"-", " ", "1", "2", " ", "m", "o", "n", "t", "h", "s">>,
            <<"-", " ", "1", "2", " ", "m", "o", "n", "t", "h", "s">> >>

\* C9: a successful call appends one operationsdata element with num_records
\* data children; without a seed every child has exactly date and value, with
\* a seed exactly dynamic_date and value, and then the call does what it does
\* with any other from_date and step.
C9_ExclusiveModes ==
  IsOps =>
    \A r \in runs : \A k \in 1..Len(last.errs[r]) :
      LET a == last.args[k]
          before == [root |-> SubSeq(root[r], 1, last.len0[r] + k - 1),
                     pos |-> last.pos0[r] + DrawsBefore(r, k)]
          other == [a EXCEPT !.from_date = None, !.step_years = 5, !.step_months = 7,
                             !.step_days = 40, !.step_hours = 30]
      IN /\ Ok(r, k) =>
              /\ El(r, k).tag = "operationsdata"
              /\ Len(El(r, k).children) = a.num_records
              /\ \A i \in 1..a.num_records :
                   AttrNames(El(r, k).children[i]) =
                     IF a.dynamic_date = None THEN <<"date", "value">>
                     ELSE <<"dynamic_date", "value">>
         /\ a.dynamic_date # None =>
              LET ref == create_ops_data(before, stream, last.nows[r][k], other)
              IN /\ ref.err = last.errs[r][k]
                 /\ Ok(r, k) => ref.root = Append(before.root, El(r, k))

C9_Witness ==
  /\ IsOps /\ Ok(1, 1) /\ last.args[1].dynamic_date # None
  /\ last.args[1].from_date = Malformed.from_date
  /\ Len(El(1, 1).children) = 3 /\ last.len0[1] = 1

\* C10: a create_ops_data call that raises leaves the root's children as they
\* were, whatever it had built and however many draws it had consumed; an
\* operation appends the complete elements of its successful calls only.
C10_FailureLeavesDocument ==
  [][\A r \in runs :
       last'.op = "create_ops_data" =>
         LET errs == last'.errs[r]
             nok == Cardinality({k \in 1..Len(errs) : errs[k] = "none"})
         IN /\ Len(root'[r]) = Len(root[r]) + nok
            /\ SubSeq(root'[r], 1, Len(root[r])) = root[r]
            /\ (Len(errs) = 1 /\ errs[1] # "none") => root'[r] = root[r]
            /\ \A k \in 1..nok :
                 Len(root'[r][Len(root[r]) + k].children) = last'.args[k].num_records]_vars

C10_Witness ==
  /\ IsOps /\ last.errs[1] = <<"OverflowError">>
  /\ rngpos[1] > last.pos0[1]
  /\ Len(root[1]) = last.len0[1] /\ Len(root[1]) = 1

====
